---- MODULE Spec2Model ----
(***************************************************************************)
(* Model of mini-timer (src/src/index.ts): the event-driven timer built by *)
(* timer(from, inc, to) with its operations start, resume, pause, stop,    *)
(* reset, toggle, update and the ticks delivered by setInterval.           *)
(*                                                                         *)
(* Every emitted event is recorded together with the state the listener    *)
(* sees at the moment of dispatch.  In Spec, SpecAuto and SpecPause the     *)
(* listeners only observe; in SpecReentrant one listener calls an           *)
(* operation of the timer during dispatch.                                  *)
(***************************************************************************)
EXTENDS Integers, Sequences, FiniteSets

(* ---- bounds of the explored configurations ---- *)
MaxVal == 3
MaxInc == 2
MaxElapsed == 6
\* registrations left live at once before the exploration stops
MaxIntervals == 2

\* hours explored by formatTime, besides 24 and 100
MaxHours == 2

\* ticks is counted up to here; no target is further than MaxVal ticks away
\* from a non-negative start
TickCap == MaxVal + 1

FromVals == (0 - MaxVal)..MaxVal
IncVals == (0 - MaxInc)..MaxInc
\* `to?: number`: <<>> is undefined, <<v>> is the number v
ToVals == {<<>>} \cup {<<v>> : v \in (0 - MaxVal)..MaxVal}

StartEvent == {"start", "resume"}
StopEvent == {"reset", "finish", "pause"}
TimerEvent == StopEvent \cup {"update"} \cup StartEvent

VARIABLES
  from,       \* constructor argument
  inc,        \* constructor argument
  to,         \* constructor argument (optional)
  state,      \* TimerState: [elapsed, running]
  id,         \* handle stored by start, 0 is undefined
  intervals,  \* handles registered with the host scheduler and not cleared
  emitted,    \* events emitted by the last operation, in order
  lastEvent,  \* name of the most recent event ever emitted
  threw,      \* the last operation threw the invalid-range Error
  op,         \* the last operation performed
  before,     \* what the timer was when the last operation was called
  arg,        \* the event passed to the last operation, "none" without one
  ticks,      \* calls of update made so far while the timer was running
  totalTime,  \* argument of formatTime
  formatted,  \* result of formatTime(totalTime), <<>> before the call
  listener,   \* the registered listener that calls the timer: [on, call]
  finishedByTick  \* a call of update has emitted finish since the last reset()

vars ==
  <<from, inc, to, state, id, intervals, emitted, lastEvent, threw, op,
    before, arg, ticks, totalTime, formatted, listener, finishedByTick>>

(* ---- formatTime ---- *)

\* const MSToHours = 1000 * 60 * 60
MSToHours == 1000 * 60 * 60
\* const MSToMin = 1000 * 60
MSToMin == 1000 * 60

\* the character of one decimal digit
DigitChar(d) == <<"0", "1", "2", "3", "4", "5", "6", "7", "8", "9">>[d + 1]

\* `${num}` for a non-negative integer: its decimal digits, as characters
RECURSIVE ToString(_)
ToString(num) ==
  IF num < 10
  THEN <<DigitChar(num)>>
  ELSE Append(ToString(num \div 10), DigitChar(num % 10))

\* String.prototype.padStart(size, '0')
RECURSIVE padStart(_, _)
padStart(str, size) ==
  IF Len(str) >= size THEN str ELSE padStart(<<"0">> \o str, size)

\* const pad = (num, size) => `${num}`.padStart(size, '0')
pad(num, size) == padStart(ToString(num), size)

\* (a / b) | 0 for a >= 0, b > 0 and a quotient below 2^31: the fraction is
\* dropped
TruncDiv(a, b) == a \div b

formatTime_keepHours(ms) ==
  LET hours == TruncDiv(ms, MSToHours)
      minutes == TruncDiv(ms, MSToMin)
      str == IF hours > 0 THEN pad(hours, 2) \o <<":">> ELSE <<>>
  IN str \o pad(minutes, 2) \o <<":">> \o pad(TruncDiv(ms % MSToMin, 1000), 2)

\* export function formatTime(totalTime: number): string
\* ((totalTime % MSToMin) * 0.001) | 0 is the quotient by 1000: the double
\* product is never below the exact one for the integers 0..59999.
formatTime(ms) ==
  LET hours == TruncDiv(ms, MSToHours)
      rest == ms % MSToHours
      minutes == TruncDiv(rest, MSToMin)
      str == IF hours > 0 THEN pad(hours, 2) \o <<":">> ELSE <<>>
  IN str \o pad(minutes, 2) \o <<":">> \o pad(TruncDiv(rest % MSToMin, 1000), 2)

\* the durations formatTime is applied to
FormatInputs ==
  {h * MSToHours + m * MSToMin + sec * 1000 + r :
     h \in (0..MaxHours) \cup {24, 100}, m \in {0, 1, 7, 59},
     sec \in {0, 5, 12, 59}, r \in {0, 999}}

(* ---- timer ---- *)

ToDefined == to # <<>>
ToVal == to[1]

\* const sign = Math.sign(inc)
sign == IF inc > 0 THEN 1 ELSE IF inc < 0 THEN -1 ELSE 0

\* The mutable part of the closure, as one value the operations transform.
Machine ==
  [elapsed |-> state.elapsed, running |-> state.running, id |-> id,
   intervals |-> intervals, emitted |-> <<>>, lastEvent |-> lastEvent,
   threw |-> FALSE]

\* no listener calls the timer
NoListener == [on |-> "none", call |-> "none"]

\* timer.on(event, () => timer.<call>()): the listeners explored, among them
\* the `finish` listener of the tests that calls reset()
Listeners ==
  { [on |-> "finish", call |-> "reset"],
    [on |-> "finish", call |-> "start"],
    [on |-> "pause", call |-> "start"],
    [on |-> "start", call |-> "stop"],
    [on |-> "reset", call |-> "resume"] }

\* the operation a listener calls, run on the timer as the dispatch finds it
RECURSIVE Call(_, _)

\* emitter.emit(event, payload): the listener sees payload and the state,
\* and runs synchronously, before emit returns
emit(m, event, payload) ==
  LET m1 == [m EXCEPT !.emitted = Append(@, [name |-> event, payload |-> payload,
                                             running |-> m.running,
                                             elapsed |-> m.elapsed]),
                      !.lastEvent = event]
  IN IF listener.on = event THEN Call(m1, listener.call) ELSE m1

\* id = setInterval(update, Math.abs(inc)): a fresh handle is registered
setInterval(m) ==
  LET h == CHOOSE n \in 1..(Cardinality(m.intervals) + 1) :
             /\ n \notin m.intervals
             /\ \A k \in 1..(n - 1) : k \in m.intervals
  IN [m EXCEPT !.intervals = @ \cup {h}, !.id = h]

\* clearInterval(id)
clearInterval(m, h) == [m EXCEPT !.intervals = @ \ {h}]

stop_emitFirst(m, event) ==
  IF m.running \/ event = "reset"
  THEN LET m1 == emit(m, event, m.elapsed)
           m2 == [m1 EXCEPT !.running = FALSE]
       IN IF m2.id # 0
          THEN [clearInterval(m2, m2.id) EXCEPT !.id = 0]
          ELSE m2
  ELSE m

stop_onlyRunning(m, event) ==
  IF m.running
  THEN LET m1 == [m EXCEPT !.running = FALSE]
           m2 == emit(m1, event, m1.elapsed)
       IN IF m2.id # 0
          THEN [clearInterval(m2, m2.id) EXCEPT !.id = 0]
          ELSE m2
  ELSE m

stop_alwaysEmit(m, event) ==
  LET m1 == [m EXCEPT !.running = FALSE]
      m2 == emit(m1, event, m1.elapsed)
  IN IF m2.id # 0
     THEN [clearInterval(m2, m2.id) EXCEPT !.id = 0]
     ELSE m2

stop_keepHandle(m, event) ==
  IF m.running \/ event = "reset"
  THEN LET m1 == [m EXCEPT !.running = FALSE]
           m2 == emit(m1, event, m1.elapsed)
       IN IF m2.id # 0
          THEN clearInterval(m2, m2.id)
          ELSE m2
  ELSE m

\* const stop = (event = 'finish') => { ... }
\* (an Error thrown by a listener leaves stop at the emit)
stop(m, event) ==
  IF m.running \/ event = "reset"
  THEN LET m1 == [m EXCEPT !.running = FALSE]
           m2 == emit(m1, event, m1.elapsed)
       IN IF m2.threw
          THEN m2
          ELSE IF m2.id # 0
               THEN [clearInterval(m2, m2.id) EXCEPT !.id = 0]
               ELSE m2
  ELSE m

update_noTargetClamp(m) ==
  IF m.running
  THEN LET raw == m.elapsed + inc
           elapsed == IF raw < 0 THEN 0 ELSE raw
       IN IF ToDefined /\ elapsed * sign >= ToVal * sign
          THEN stop([m EXCEPT !.elapsed = elapsed], "finish")
          ELSE emit([m EXCEPT !.elapsed = elapsed], "update", elapsed)
  ELSE m

update_noZeroClamp(m) ==
  IF m.running
  THEN LET elapsed == m.elapsed + inc
       IN IF ToDefined /\ elapsed * sign >= ToVal * sign
          THEN stop([m EXCEPT !.elapsed = ToVal], "finish")
          ELSE emit([m EXCEPT !.elapsed = elapsed], "update", elapsed)
  ELSE m

update_noGate(m) ==
  LET raw == m.elapsed + inc
      elapsed == IF raw < 0 THEN 0 ELSE raw
  IN IF ToDefined /\ elapsed * sign >= ToVal * sign
     THEN stop([m EXCEPT !.elapsed = ToVal], "finish")
     ELSE emit([m EXCEPT !.elapsed = elapsed], "update", elapsed)

update_neverFinish(m) ==
  IF m.running
  THEN LET raw == m.elapsed + inc
           elapsed == IF raw < 0 THEN 0 ELSE raw
       IN IF ToDefined /\ elapsed * sign >= ToVal * sign
          THEN emit([m EXCEPT !.elapsed = ToVal], "update", ToVal)
          ELSE emit([m EXCEPT !.elapsed = elapsed], "update", elapsed)
  ELSE m

update_subtract(m) ==
  IF m.running
  THEN LET raw == m.elapsed - inc
           elapsed == IF raw < 0 THEN 0 ELSE raw
       IN IF ToDefined /\ elapsed * sign >= ToVal * sign
          THEN stop([m EXCEPT !.elapsed = ToVal], "finish")
          ELSE emit([m EXCEPT !.elapsed = elapsed], "update", elapsed)
  ELSE m

\* const update = () => { ... }
update(m) ==
  IF m.running
  THEN LET raw == m.elapsed + inc
           elapsed == IF raw < 0 THEN 0 ELSE raw
       IN IF ToDefined /\ elapsed * sign >= ToVal * sign
          THEN stop([m EXCEPT !.elapsed = ToVal], "finish")
          ELSE emit([m EXCEPT !.elapsed = elapsed], "update", elapsed)
  ELSE m

RangeError_onElapsed == ToDefined /\ ToVal # 0 /\ state.elapsed * sign > ToVal * sign

\* if (to && from * sign > to * sign) throw new Error(...)
RangeError == ToDefined /\ ToVal # 0 /\ from * sign > ToVal * sign

start_lateCheck(m, event) ==
  IF ~m.running
  THEN LET m1 == emit([m EXCEPT !.running = TRUE], event, m.elapsed)
       IN IF RangeError THEN [m1 EXCEPT !.threw = TRUE] ELSE setInterval(m1)
  ELSE IF RangeError THEN [m EXCEPT !.threw = TRUE] ELSE m

start_noGuard(m, event) ==
  IF RangeError
  THEN [m EXCEPT !.threw = TRUE]
  ELSE setInterval(emit([m EXCEPT !.running = TRUE], event, m.elapsed))

start_emitFirst(m, event) ==
  IF RangeError
  THEN [m EXCEPT !.threw = TRUE]
  ELSE IF ~m.running
       THEN setInterval([emit(m, event, m.elapsed) EXCEPT !.running = TRUE])
       ELSE m

start_rewind(m, event) ==
  IF RangeError
  THEN [m EXCEPT !.threw = TRUE]
  ELSE IF ~m.running
       THEN LET m0 == [m EXCEPT !.running = TRUE, !.elapsed = from]
                m1 == emit(m0, event, m0.elapsed)
            IN IF m1.threw THEN m1 ELSE setInterval(m1)
       ELSE m

\* const start = (event = 'start') => { ... }
\* (an Error thrown by a listener leaves start at the emit)
start(m, event) ==
  IF RangeError
  THEN [m EXCEPT !.threw = TRUE]
  ELSE IF ~m.running
       THEN LET m1 == emit([m EXCEPT !.running = TRUE], event, m.elapsed)
            IN IF m1.threw THEN m1 ELSE setInterval(m1)
       ELSE m

\* const resume = () => { start('resume') }
resume(m) == start(m, "resume")

\* const pause = () => { stop('pause') }
pause(m) == stop(m, "pause")

\* const reset = () => { state.elapsed = 0; stop('reset') }
reset(m) == stop([m EXCEPT !.elapsed = 0], "reset")

\* const toggle = () => { state.running ? stop() : start() }
toggle(m) == IF m.running THEN stop(m, "finish") ELSE start(m, "start")

Call(m, name) ==
  CASE name = "start" -> start(m, "start")
    [] name = "resume" -> resume(m)
    [] name = "pause" -> pause(m)
    [] name = "stop" -> stop(m, "finish")
    [] name = "reset" -> reset(m)
    [] name = "toggle" -> toggle(m)

\* The timer as the caller of the next operation finds it.
Snapshot ==
  [elapsed |-> state.elapsed, running |-> state.running, id |-> id,
   intervals |-> intervals, lastEvent |-> lastEvent]

\* The closure after an operation returned (or threw) with machine m.
Commit(m) ==
  /\ state' = [elapsed |-> m.elapsed, running |-> m.running]
  /\ id' = m.id
  /\ intervals' = m.intervals
  /\ emitted' = m.emitted
  /\ lastEvent' = m.lastEvent
  /\ threw' = m.threw
  /\ before' = Snapshot
  /\ Cardinality(m.intervals) <= MaxIntervals
  /\ UNCHANGED <<from, inc, to, totalTime, formatted, listener>>

\* ticks after one more call of update
Counted ==
  IF state.running /\ ticks < TickCap THEN ticks + 1 ELSE ticks

\* the operation that produced m emitted finish
Finishes(m) == \E i \in 1..Len(m.emitted) : m.emitted[i].name = "finish"

\* Without a target a count-up grows for ever; the exploration stops there.
InBounds(m) == m.elapsed <= MaxElapsed

\* timer(from, inc, to)
Init ==
  /\ from \in FromVals
  /\ inc \in IncVals
  /\ to \in ToVals
  /\ state = [elapsed |-> from, running |-> FALSE]
  /\ id = 0
  /\ intervals = {}
  /\ emitted = <<>>
  /\ lastEvent = "none"
  /\ threw = FALSE
  /\ op = "init"
  /\ before = [elapsed |-> from, running |-> FALSE, id |-> 0,
               intervals |-> {}, lastEvent |-> "none"]
  /\ arg = "none"
  /\ ticks = 0
  /\ totalTime = 0
  /\ formatted = <<>>
  /\ listener = NoListener
  /\ finishedByTick = FALSE

Start ==
  /\ op' = "start"
  /\ arg' = "none"
  /\ Commit(start(Machine, "start"))
  /\ UNCHANGED <<ticks, finishedByTick>>

Resume ==
  /\ op' = "resume"
  /\ arg' = "none"
  /\ Commit(resume(Machine))
  /\ UNCHANGED <<ticks, finishedByTick>>

Pause ==
  /\ op' = "pause"
  /\ arg' = "none"
  /\ Commit(pause(Machine))
  /\ UNCHANGED <<ticks, finishedByTick>>

\* the public stop(event?), event defaulting to 'finish'
Stop ==
  /\ op' = "stop"
  /\ \E event \in StopEvent :
       /\ arg' = event
       /\ Commit(stop(Machine, event))
  /\ UNCHANGED <<ticks, finishedByTick>>

Reset ==
  /\ op' = "reset"
  /\ arg' = "none"
  /\ Commit(reset(Machine))
  /\ finishedByTick' = FALSE
  /\ UNCHANGED ticks

Toggle ==
  /\ op' = "toggle"
  /\ arg' = "none"
  /\ Commit(toggle(Machine))
  /\ UNCHANGED <<ticks, finishedByTick>>

\* the public update(), callable in any state
Update ==
  /\ InBounds(update(Machine))
  /\ op' = "update"
  /\ arg' = "none"
  /\ Commit(update(Machine))
  /\ ticks' = Counted
  /\ finishedByTick' = (finishedByTick \/ Finishes(update(Machine)))

\* the host scheduler runs the callback of a live registration
Tick ==
  /\ intervals # {}
  /\ InBounds(update(Machine))
  /\ op' = "tick"
  /\ arg' = "none"
  /\ Commit(update(Machine))
  /\ ticks' = Counted
  /\ finishedByTick' = (finishedByTick \/ Finishes(update(Machine)))

Next == Start \/ Resume \/ Pause \/ Stop \/ Reset \/ Toggle \/ Update \/ Tick

Spec == Init /\ [][Next]_vars

\* The client starts the timer and then leaves it to the scheduler, which
\* keeps delivering ticks while a registration is live.
NextAuto == Start \/ Resume \/ Update \/ Tick
SpecAuto == Init /\ [][NextAuto]_vars /\ WF_vars(Tick)

\* The client starts, pauses and resumes, and never stops or resets.
NextPause == Start \/ Resume \/ Pause \/ Update \/ Tick
SpecPause == Init /\ [][NextPause]_vars

\* A timer on which one listener that calls the timer has been registered
\* with on() before the first operation; it starts at 0 or above and steps
\* by one.
InitReentrant ==
  /\ from \in 0..MaxVal
  /\ inc \in {-1, 1}
  /\ to \in ToVals
  /\ state = [elapsed |-> from, running |-> FALSE]
  /\ id = 0
  /\ intervals = {}
  /\ emitted = <<>>
  /\ lastEvent = "none"
  /\ threw = FALSE
  /\ op = "init"
  /\ before = [elapsed |-> from, running |-> FALSE, id |-> 0,
               intervals |-> {}, lastEvent |-> "none"]
  /\ arg = "none"
  /\ ticks = 0
  /\ totalTime = 0
  /\ formatted = <<>>
  /\ listener \in Listeners
  /\ finishedByTick = FALSE

SpecReentrant == InitReentrant /\ [][Next]_vars

\* formatTime applied to each duration of FormatInputs, beside a timer that
\* has just been constructed.
InitFormat ==
  /\ from = 0 /\ inc = 1 /\ to = <<>>
  /\ state = [elapsed |-> from, running |-> FALSE]
  /\ id = 0
  /\ intervals = {}
  /\ emitted = <<>>
  /\ lastEvent = "none"
  /\ threw = FALSE
  /\ op = "init"
  /\ before = [elapsed |-> from, running |-> FALSE, id |-> 0,
               intervals |-> {}, lastEvent |-> "none"]
  /\ arg = "none"
  /\ ticks = 0
  /\ totalTime \in FormatInputs
  /\ formatted = <<>>
  /\ listener = NoListener
  /\ finishedByTick = FALSE

Format ==
  /\ formatted = <<>>
  /\ formatted' = formatTime(totalTime)
  /\ UNCHANGED <<from, inc, to, state, id, intervals, emitted, lastEvent,
                 threw, op, before, arg, ticks, totalTime, listener,
                 finishedByTick>>

NextFormat == Format
SpecFormat == InitFormat /\ [][NextFormat]_vars

(* ---- vocabulary of the properties ---- *)

\* the configuration passes the range validation of start
Valid == ~RangeError

\* the values a client can observe now: elapsed and the payloads just emitted
Observed == {state.elapsed} \cup {emitted[i].payload : i \in 1..Len(emitted)}

\* x lies strictly beyond the target in the direction of travel
Beyond(x) == x * sign > ToVal * sign

EmittedNames == {emitted[i].name : i \in 1..Len(emitted)}

\* the event a listener of `name` receives when elapsed is e and running is r
Event(name, e, r) == [name |-> name, payload |-> e, running |-> r, elapsed |-> e]

\* update's next value before the comparison with the target
Clamped(x) == IF x + inc < 0 THEN 0 ELSE x + inc

(* ---- C1 ---- *)

\* C1 (as stated): for a configuration that passes range validation and has
\* `to` defined, elapsed and every emitted payload are never strictly beyond
\* `to` in the direction of travel.  The configurations taken here pass the
\* validation under both readings: start does not throw, and `from` is not
\* beyond `to` (which start does not check for a target of 0).
C1_Original ==
  (Valid /\ ToDefined /\ ~Beyond(from)) => \A x \in Observed : ~Beyond(x)

\* C1 (amended): for a configuration that passes range validation and has
\* `to` defined, elapsed and every emitted payload are strictly beyond `to`
\* in the direction of travel only when the value is the 0 left by reset(),
\* or when `to` is 0 and the value is still `from`.
C1_NoOvershoot ==
  (Valid /\ ToDefined) =>
    \A x \in Observed : Beyond(x) => (x = 0 \/ (ToVal = 0 /\ x = from))

\* a tick whose raw result passed the target and was clamped onto it
C1_Witness ==
  /\ Valid /\ ToDefined /\ from = 0 /\ inc = 2 /\ ToVal = 3
  /\ op = "tick" /\ state.elapsed = 3
  /\ emitted = <<Event("finish", 3, FALSE)>>

(* ---- C2 ---- *)

\* C2 (as stated): for a configuration that passes range validation, elapsed
\* and every emitted payload are >= 0 in every reachable state.
C2_Original ==
  Valid => \A x \in Observed : x >= 0

\* C2 (amended): for a configuration that passes range validation, elapsed
\* and every emitted payload are >= 0, except where the value is a negative
\* `from` (before the first tick taken while running) or a negative `to`
\* (set by the finishing tick).
C2_NonNegative ==
  Valid => \A x \in Observed :
             x < 0 => (x = from \/ (ToDefined /\ x = ToVal))

\* a count-down tick whose raw result was below zero and was clamped to 0
C2_Witness ==
  /\ from = 1 /\ inc = -2 /\ to = <<>>
  /\ op = "tick" /\ emitted = <<Event("update", 0, TRUE)>>

(* ---- C3 ---- *)

\* C3: a tick taken while running, with `to` defined and the clamped raw
\* result at or beyond `to` in the direction of travel, sets elapsed to `to`,
\* sets running to false, cancels the registration and emits exactly one
\* `finish` with payload `to` whose listener sees running = false and
\* elapsed = `to`; no `update` is emitted.
C3_FinishingTick ==
  ( /\ op \in {"tick", "update"}
    /\ before.running
    /\ ToDefined
    /\ Clamped(before.elapsed) * sign >= ToVal * sign )
  => ( /\ state = [elapsed |-> ToVal, running |-> FALSE]
       /\ id = 0
       /\ intervals = {}
       /\ emitted = <<Event("finish", ToVal, FALSE)>> )

\* the scheduler's tick passed the target of a count-down and finished on it
C3_Witness ==
  /\ op = "tick" /\ before.running /\ before.intervals # {}
  /\ ToDefined /\ inc < 0 /\ before.elapsed + inc < ToVal
  /\ state = [elapsed |-> ToVal, running |-> FALSE]
  /\ emitted = <<Event("finish", ToVal, FALSE)>>

(* ---- C4 ---- *)

Finished == ~state.running /\ lastEvent = "finish"

\* C4 (as stated): for a configuration that passes range validation, with
\* `to` defined and inc # 0, a started timer left to the scheduler
\* eventually emits `finish` and stops.
C4_Original ==
  (Valid /\ ToDefined /\ inc # 0 /\ state.running) ~> Finished

\* C4 (amended): the same, provided the target is not a negative number
\* approached by counting down (`to` >= 0 or inc > 0); counting down stops
\* at the clamp 0 and never reaches a negative target.
C4_AutoStops ==
  (Valid /\ ToDefined /\ inc # 0 /\ (ToVal >= 0 \/ inc > 0) /\ state.running)
    ~> Finished

\* a count-down started above its target has finished on a tick
C4_Witness ==
  /\ Valid /\ ToDefined /\ inc < 0 /\ from > ToVal + 1 /\ ToVal >= 0
  /\ op = "tick" /\ Finished /\ state.elapsed = ToVal

(* ---- C5 ---- *)

\* C5: when start(), resume() or toggle() throws the invalid-range error
\* nothing else happens: elapsed and running are unchanged, running is
\* false, no event is emitted and no registration is created.
C5_ThrowIsAtomic ==
  threw => ( /\ op \in {"start", "resume", "toggle"}
             /\ state = [elapsed |-> before.elapsed, running |-> before.running]
             /\ ~state.running
             /\ emitted = <<>>
             /\ lastEvent = before.lastEvent
             /\ id = before.id
             /\ intervals = before.intervals
             /\ intervals = {} )

\* toggle() on a stopped timer with an invalid range threw
C5_Witness == threw /\ op = "toggle" /\ ~before.running /\ intervals = {}

(* ---- C6 ---- *)

\* the invalid-range condition, from the constructor arguments alone
C6_Condition ==
  /\ to # <<>>
  /\ to # <<0>>
  /\ \/ inc > 0 /\ from > ToVal
     \/ inc < 0 /\ from < ToVal

C7_Original ==
  (op \in {"start", "resume"} /\ ToDefined /\ (from - ToVal) * sign > 0)
    => threw

(* ---- C8 ---- *)

\* C8: after reset(), whatever the state before, elapsed = 0, running is
\* false, exactly one `reset` with payload 0 was emitted and no registration
\* is live.
C8_Reset ==
  op = "reset" =>
    /\ state = [elapsed |-> 0, running |-> FALSE]
    /\ emitted = <<Event("reset", 0, FALSE)>>
    /\ intervals = {}
    /\ id = 0

\* reset() was called on a timer that a finishing tick had already stopped
C8_Witness ==
  /\ op = "reset" /\ ~before.running /\ before.lastEvent = "finish"
  /\ before.elapsed # 0
  /\ emitted = <<Event("reset", 0, FALSE)>>

(* ---- C9 ---- *)

\* C9: start() and resume() on a running timer do nothing: no event is
\* emitted, no registration is created, elapsed and running are unchanged.
C9_StartWhileRunning ==
  (op \in {"start", "resume"} /\ before.running) =>
    /\ emitted = <<>>
    /\ ~threw
    /\ state = [elapsed |-> before.elapsed, running |-> TRUE]
    /\ id = before.id
    /\ intervals = before.intervals
    /\ Cardinality(intervals) = 1
    /\ lastEvent = before.lastEvent

\* start() was called on a timer that was running after an update
C9_Witness ==
  /\ op = "start" /\ before.running /\ before.lastEvent = "update"
  /\ state.running /\ emitted = <<>>

(* ---- C10 ---- *)

\* C10: while the timer is stopped, a tick or a call of update() changes
\* neither elapsed nor running and emits nothing; so elapsed is carried
\* unchanged from a pause to the next resume, and no `update` is emitted
\* after a pause, finish or reset until the next start or resume.
C10_StoppedTick ==
  /\ (op \in {"tick", "update"} /\ ~before.running) =>
       /\ state = [elapsed |-> before.elapsed, running |-> FALSE]
       /\ emitted = <<>>
       /\ lastEvent = before.lastEvent
  /\ before.lastEvent \in StopEvent => "update" \notin EmittedNames
  /\ lastEvent \in StopEvent => ~state.running

\* update() was called on a paused timer away from 0 and from its target
C10_Witness ==
  /\ op = "update" /\ ~before.running /\ before.lastEvent = "pause"
  /\ inc # 0 /\ state.elapsed > 0 /\ (ToDefined => state.elapsed # ToVal)
  /\ emitted = <<>>

(* ---- C11 ---- *)

\* the event a call of pause() or stop(event) asks for
C11_Asked == IF op = "pause" THEN "pause" ELSE arg

C12_Original ==
  \A i \in 1..Len(emitted) :
    emitted[i].name = "reset" => emitted[i] = Event("reset", 0, FALSE)

(* ---- C13 ---- *)

Min3(a, b, c) == CHOOSE x \in {a, b, c} : \A y \in {a, b, c} : x <= y
Max3(a, b, c) == CHOOSE x \in {a, b, c} : \A y \in {a, b, c} : x >= y

\* C13 (as stated): with `to` defined and a configuration that passes range
\* validation, elapsed lies within [min(from,to), max(from,to)] in every
\* reachable state.  The configurations taken here pass the validation under
\* both readings (start does not throw, `from` is not beyond `to`).
C13_Original ==
  (Valid /\ ToDefined /\ ~Beyond(from)) =>
    /\ Min3(from, ToVal, ToVal) <= state.elapsed
    /\ state.elapsed <= Max3(from, ToVal, ToVal)

\* C13 (amended): with `to` defined and a configuration that passes range
\* validation, elapsed lies within [min(from,to,0), max(from,to,0)] in every
\* reachable state: reset() and the clamp of a tick store 0 whether or not 0
\* lies between `from` and `to`.
C13_WithinRange ==
  (Valid /\ ToDefined) =>
    /\ Min3(from, ToVal, 0) <= state.elapsed
    /\ state.elapsed <= Max3(from, ToVal, 0)

\* a tick moved elapsed strictly between `from` and `to`, both above 0
C13_Witness ==
  /\ Valid /\ ToDefined /\ ToVal > 0 /\ from > ToVal
  /\ op = "tick" /\ state.elapsed < from /\ state.elapsed > ToVal
  /\ state.running

(* ---- C14 ---- *)

\* C14: every emitted event carries as payload the value of elapsed at the
\* moment of emission, and the running flag is already switched then:
\* listeners of start, resume and update see running = true, listeners of
\* pause, finish and reset see running = false.
C14_PayloadAndFlag ==
  \A i \in 1..Len(emitted) :
    /\ emitted[i].payload = emitted[i].elapsed
    /\ emitted[i].running <=> (emitted[i].name \in StartEvent \cup {"update"})
    /\ emitted[i].name \in TimerEvent

\* resume() after a pause emitted `resume` with the elapsed reached before
C14_Witness ==
  /\ op = "resume" /\ before.lastEvent = "pause"
  /\ before.elapsed # from /\ before.elapsed # 0
  /\ emitted = <<Event("resume", before.elapsed, TRUE)>>

(* ---- C15 ---- *)

\* ceil(|to - from| / |inc|)
C15_K ==
  LET d == IF ToVal >= from THEN ToVal - from ELSE from - ToVal
      a == IF inc >= 0 THEN inc ELSE 0 - inc
  IN (d + a - 1) \div a

\* C15 (as stated): for a valid configuration with from >= 0, to >= 0,
\* from # to (and inc # 0), with pauses and resumes but no stop or reset,
\* the first `finish` is emitted on exactly the k-th call of update made
\* while running, k = ceil(|to - from| / |inc|): not earlier, not later.
C15_Original ==
  (Valid /\ ToDefined /\ inc # 0 /\ from >= 0 /\ ToVal >= 0 /\ from # ToVal)
  => /\ ( /\ op \in {"tick", "update"} /\ before.running
          /\ before.lastEvent # "finish"
          /\ "finish" \in EmittedNames
          /\ before.elapsed # ToVal ) => ticks = C15_K
     /\ ticks >= C15_K => state.elapsed = ToVal
     /\ ticks < C15_K => lastEvent # "finish"

(* ---- C16 ---- *)

\* C16 (as stated): every `update` payload is <= the elapsed observed just
\* before that tick when inc < 0, and >= it when inc > 0.
C16_Original ==
  (op \in {"tick", "update"} /\ "update" \in EmittedNames) =>
    /\ inc < 0 => emitted[1].payload <= before.elapsed
    /\ inc > 0 => emitted[1].payload >= before.elapsed

\* C16 (amended): every `update` payload is >= the elapsed observed just
\* before that tick when inc > 0; when inc < 0 it is <= that value provided
\* that value is >= 0, and it is 0 (the clamp) when that value is negative.
C16_Monotone ==
  (op \in {"tick", "update"} /\ "update" \in EmittedNames) =>
    /\ inc > 0 => emitted[1].payload >= before.elapsed
    /\ (inc < 0 /\ before.elapsed >= 0) => emitted[1].payload <= before.elapsed
    /\ (inc < 0 /\ before.elapsed < 0) => emitted[1].payload = 0

\* a count-down tick emitted an update strictly below the value before it
C16_Witness ==
  /\ op = "tick" /\ inc < 0 /\ before.elapsed > 0
  /\ emitted = <<Event("update", before.elapsed + inc, TRUE)>>
  /\ before.elapsed + inc > 0

(* ---- C18 ---- *)

\* the fields of a formatted string: the runs of characters between colons
RECURSIVE C18_Fields(_)
C18_Fields(str) ==
  IF str = <<>> THEN <<<<>>>>
  ELSE LET rest == C18_Fields(Tail(str))
       IN IF Head(str) = ":"
          THEN <<<<>>>> \o rest
          ELSE <<<<Head(str)>> \o Head(rest)>> \o Tail(rest)

C18_DigitVal(c) == CHOOSE d \in 0..9 : DigitChar(d) = c

\* the number a field of decimal digits writes
RECURSIVE C18_Value(_)
C18_Value(field) ==
  IF field = <<>> THEN 0
  ELSE 10 * C18_Value(SubSeq(field, 1, Len(field) - 1))
         + C18_DigitVal(field[Len(field)])

\* a field is the decimal writing of n, zero-padded to two digits
C18_IsField(field, n) ==
  /\ \A i \in 1..Len(field) : \E d \in 0..9 : DigitChar(d) = field[i]
  /\ C18_Value(field) = n
  /\ IF n < 100 THEN Len(field) = 2 ELSE field[1] # "0"

\* C18: for a non-negative integer number of milliseconds formatTime writes
\* hours = ms div 3600000, minutes = (ms mod 3600000) div 60000 and
\* seconds = (ms mod 60000) div 1000, each zero-padded to at least two
\* digits, the hours field present exactly when hours > 0, minutes and
\* seconds within 0..59.
C18_FormatTime ==
  formatted # <<>> =>
    LET fields == C18_Fields(formatted)
        h == totalTime \div 3600000
        m == (totalTime % 3600000) \div 60000
        sec == (totalTime % 60000) \div 1000
        n == Len(fields)
    IN /\ n = (IF h > 0 THEN 3 ELSE 2)
       /\ h > 0 => C18_IsField(fields[1], h)
       /\ C18_IsField(fields[n - 1], m)
       /\ C18_IsField(fields[n], sec)
       /\ C18_Value(fields[n - 1]) \in 0..59
       /\ C18_Value(fields[n]) \in 0..59

\* formatTime(3665000) = "01:01:05"
C18_Witness ==
  /\ totalTime = 3665000
  /\ formatted = <<"0", "1", ":", "0", "1", ":", "0", "5">>

(* ---- C19 ---- *)

\* C19: with listeners that do not call back into the timer, after every
\* operation or tick running is true exactly when one registration is live,
\* which is the stored handle; when running is false none is live and the
\* stored handle is cleared; never is more than one registration live.
C19_OneRegistration ==
  /\ Cardinality(intervals) <= 1
  /\ state.running <=> Cardinality(intervals) = 1
  /\ state.running => (id # 0 /\ intervals = {id})
  /\ ~state.running => (intervals = {} /\ id = 0)

\* pause() cancelled the one registration of a running timer
C19_Witness ==
  /\ op = "pause" /\ before.running
  /\ before.id # 0 /\ before.intervals = {before.id}
  /\ ~state.running /\ intervals = {} /\ id = 0

(* ---- C20 ---- *)

\* C20 (as stated): also when a listener calls the timer's own operations
\* during dispatch, after the outermost operation has returned at most one
\* registration is live, one is live exactly when running is true, and every
\* live registration is the stored handle, so that it can still be
\* cancelled.
C20_Original ==
  ~threw =>
    /\ Cardinality(intervals) <= 1
    /\ state.running <=> intervals # {}
    /\ intervals \subseteq {id}

(* ---- C21 ---- *)

\* C21: once a tick has finished the timer on `to`, and until reset() is
\* called, elapsed stays equal to `to` under start, resume, toggle, pause,
\* stop, update and ticks: no `update` event is emitted any more, and every
\* call of update made while running emits `finish` with payload `to` and
\* stops the timer.
C21_StaysOnTarget ==
  finishedByTick =>
    /\ ToDefined
    /\ state.elapsed = ToVal
    /\ op # "reset"
    /\ "update" \notin EmittedNames
    /\ \A i \in 1..Len(emitted) : emitted[i].payload = ToVal
    /\ (op \in {"tick", "update"} /\ before.running) =>
         /\ emitted = <<Event("finish", ToVal, FALSE)>>
         /\ ~state.running

\* a timer already finished on its target was resumed, and its first tick
\* finished it again
C21_Witness ==
  /\ finishedByTick /\ ToDefined /\ ToVal # 0 /\ from # ToVal /\ inc # 0
  /\ op = "tick" /\ before.running /\ before.elapsed = ToVal
  /\ before.lastEvent = "resume"
  /\ emitted = <<Event("finish", ToVal, FALSE)>>
====
